---- MODULE Spec2Model ----
(***************************************************************************)
(* ExFITS NIF layer (c_src/exfits_nif.c, c_src/write_fits.c).              *)
(*                                                                         *)
(* Every NIF is a synchronous, single-call unit of work, so each entry     *)
(* point is one action.  The state is the file stored under the path the   *)
(* calls work on (fs) and the record of the call that ran last (last):     *)
(* its arguments, the term it returned and the sequence of file-system and *)
(* CFITSIO calls it issued, each with the status it came back with.        *)
(* The outcome of every external call is an input of the action: it fails  *)
(* when the library must fail (a file that exists cannot be created, ...)  *)
(* or when the environment makes it fail (env.at).                         *)
(***************************************************************************)
EXTENDS Integers, Sequences, FiniteSets, TLC

VARIABLES fs, last, declared

vars == <<fs, last, declared>>

(***************************************************************************)
(* Bounds of the explored inputs.                                          *)
(***************************************************************************)
MaxDim == 2
MaxLen == 2
MaxEntries == 2

(***************************************************************************)
(* C long.  A long is written hi * 2^62 + lo with hi in -1..1 and lo       *)
(* small, which is exact for every value the model handles and keeps 2^62  *)
(* itself (the smallest width whose byte count wraps) in range.            *)
(***************************************************************************)
Long(hi, lo) == [hi |-> hi, lo |-> lo]

Small(n) == Long(0, n)

Big == Long(1, 0)

IsSmall(x) == x.hi = 0

\* long * long without signed overflow: at most one factor has a 2^62 part
\* and the other factor is then -1, 0 or 1.
NoSignedOverflow(a, b) ==
    \/ a.hi = 0 /\ b.hi = 0
    \/ a.hi # 0 /\ b.hi = 0 /\ a.lo = 0 /\ b.lo \in {-1, 0, 1}
    \/ b.hi # 0 /\ a.hi = 0 /\ b.lo = 0 /\ a.lo \in {-1, 0, 1}

LongMul(a, b) == Long(a.hi * b.lo + b.hi * a.lo, a.lo * b.lo)

SizeofFloat == 4

\* (size_t)(width * height) * sizeof(float): the product modulo 2^64, as
\* the residue of least absolute value.  4 * hi * 2^62 = hi * 2^64 vanishes.
ByteCount(width, height) == SizeofFloat * LongMul(width, height).lo

\* The same product over the integers, as a long-like pair.
MathByteCount(width, height) ==
    Long(SizeofFloat * LongMul(width, height).hi,
         SizeofFloat * LongMul(width, height).lo)

MathEquals(x, n) == x.hi = 0 /\ x.lo = n

(***************************************************************************)
(* Pixel samples.  A 32-bit float sample is counted in halves (3 = 1.5).   *)
(***************************************************************************)
Samples == {0, 3}

RECURSIVE SeqsUpTo(_, _)
SeqsUpTo(S, n) ==
    IF n = 0 THEN {<< >>}
    ELSE LET shorter == SeqsUpTo(S, n - 1)
         IN  shorter \cup {Append(s, x) : s \in {t \in shorter : Len(t) = n - 1}, x \in S}

Buffers == SeqsUpTo(Samples, MaxLen)

\* bin_data.size
BinSize(data) == SizeofFloat * Len(data)

FLOAT_IMG == 0 - 32

SHORT_IMG == 16

\* The format codes the library allocates an image for: the six BITPIX
\* values and its codes for the signed-byte and unsigned formats.
ValidBitpix == {8, 16, 32, 64, 0 - 32, 0 - 64, 10, 20, 40, 80}

\* What the library stores of a TFLOAT sample in an image of the given
\* BITPIX and hands back as TFLOAT: unchanged for the float formats, rounded
\* to the nearest integer for the integer formats.
StoredSample(bitpix, s) ==
    IF bitpix < 0 THEN s ELSE 2 * ((s + 1) \div 2)

(***************************************************************************)
(* The file stored under the path.  stage tells how far its creation got:  *)
(* "created" (fits_create_file only: no header yet), "allocated" (primary  *)
(* image header written, data unit zero-filled) or "written" (samples      *)
(* stored).  cards are the header records that follow the structural ones. *)
(***************************************************************************)
NoFile ==
    [exists |-> FALSE, stage |-> "none", naxis |-> 0,
     naxes |-> <<Small(0), Small(0)>>, bitpix |-> 0, pix |-> << >>,
     cards |-> << >>]

ZeroFill(naxes) ==
    IF IsSmall(naxes[1]) /\ IsSmall(naxes[2]) /\ naxes[1].lo >= 0 /\ naxes[2].lo >= 0
    THEN [i \in 1..(naxes[1].lo * naxes[2].lo) |-> 0]
    ELSE << >>

\* The data unit holds as many samples as the header declares.
DataComplete(f) ==
    /\ f.stage \in {"allocated", "written"}
    /\ IsSmall(f.naxes[1]) /\ IsSmall(f.naxes[2])
    /\ f.naxes[1].lo >= 0 /\ f.naxes[2].lo >= 0
    /\ Len(f.pix) = f.naxes[1].lo * f.naxes[2].lo

(***************************************************************************)
(* Terms returned to the caller.                                           *)
(***************************************************************************)
EmptyMap == [k \in {} |-> 0]

Term(tag, atom, code) ==
    [tag |-> tag, atom |-> atom, code |-> code,
     width |-> Small(0), height |-> Small(0), data |-> << >>, map |-> EmptyMap]

\* ok
OkAtom == Term("ok", "", 0)

\* {error, status}
ErrorStatusTerm(status) == Term("error", "", status)

\* {error, atom}
ErrorAtomTerm(atom) == Term("error", atom, 0)

\* error (a bare atom)
BareError == Term("error_atom", "", 0)

\* enif_make_badarg
Badarg == Term("badarg", "", 0)

\* the emulator dies inside the call: nothing is returned
Crashed == Term("crash", "", 0)

\* {ok, {width, height, data}}
OkImage(width, height, data) ==
    [Term("ok_image", "", 0) EXCEPT !.width = width, !.height = height, !.data = data]

\* {ok, header_map}
OkHeader(map) == [Term("ok_header", "", 0) EXCEPT !.map = map]

(***************************************************************************)
(* External calls.  m is the state of one running NIF: the file, the C     *)
(* variable status, the log of the calls issued so far, and the output     *)
(* parameters of the library.  env names the call the environment makes    *)
(* fail (env.at), the keys whose update it makes fail (env.keys), the      *)
(* record it makes unreadable (env.rec) and what an out-of-bounds access   *)
(* does (env.ub).                                                          *)
(***************************************************************************)
LibStatus(name) ==
    CASE name = "FILE_NOT_OPENED" -> 104
      [] name = "FILE_NOT_CREATED" -> 105
      [] name = "WRITE_ERROR" -> 106
      [] name = "END_OF_FILE" -> 107
      [] name = "READ_ERROR" -> 108
      [] name = "FILE_NOT_CLOSED" -> 110
      [] name = "BAD_HEADER_FILL" -> 254
      [] name = "KEY_OUT_BOUNDS" -> 203
      [] name = "BAD_KEYCHAR" -> 207
      [] name = "NO_QUOTE" -> 205
      [] name = "BAD_BITPIX" -> 211
      [] name = "BAD_NAXES" -> 213
      [] name = "BAD_HDU_NUM" -> 301

Start(f) ==
    [fs |-> f, status |-> 0, calls |-> << >>, crashed |-> FALSE,
     naxis |-> 0, naxes |-> <<Small(1), Small(1)>>, pixels |-> << >>]

\* One issued call: the status it came back with, and whether a non-zero
\* status is the environment's doing (inj) rather than the library's rule.
Entry(fn, st, key, tag, inj) ==
    [fn |-> fn, st |-> st, key |-> key, tag |-> tag, inj |-> inj]

Log(m, fn, st, inj) == Append(m.calls, Entry(fn, st, "", "", inj))

\* remove(filename)
remove(m) ==
    [m EXCEPT !.fs = NoFile, !.calls = Log(m, "remove", 0, FALSE)]

\* fits_open_file(&fptr, filename, mode, &status): a file that is missing or
\* holds no header cannot be opened.
fits_open_file(m, env) ==
    LET lib == ~m.fs.exists \/ m.fs.stage = "created"
        inj == ~lib /\ env.at = "fits_open_file"
        st == IF lib \/ inj THEN LibStatus("FILE_NOT_OPENED") ELSE 0
    IN  [m EXCEPT !.status = st, !.calls = Log(m, "fits_open_file", st, inj)]

\* fits_create_file(&fptr, filename, &status): refuses to replace a file.
fits_create_file(m, env) ==
    LET lib == m.fs.exists
        inj == ~lib /\ env.at = "fits_create_file"
        st == IF lib \/ inj THEN LibStatus("FILE_NOT_CREATED") ELSE 0
    IN  [m EXCEPT !.status = st,
                  !.calls = Log(m, "fits_create_file", st, inj),
                  !.fs = IF st = 0
                         THEN [NoFile EXCEPT !.exists = TRUE, !.stage = "created"]
                         ELSE m.fs]

\* fits_close_file(fptr, &status): closes whatever status it is handed, and
\* hands a non-zero status back unchanged.
fits_close_file(m, env) ==
    LET inj == m.status = 0 /\ env.at = "fits_close_file"
        st == IF m.status # 0 THEN m.status
              ELSE IF inj THEN LibStatus("FILE_NOT_CLOSED")
              ELSE 0
    IN  [m EXCEPT !.status = st, !.calls = Log(m, "fits_close_file", st, inj)]

\* fits_create_img(fptr, bitpix, 2, naxes, &status)
fits_create_img(m, bitpix, naxes, env) ==
    LET st == IF bitpix \notin ValidBitpix THEN LibStatus("BAD_BITPIX")
              ELSE IF \E i \in 1..2 : naxes[i].hi < 0 \/ (naxes[i].hi = 0 /\ naxes[i].lo < 0)
                   THEN LibStatus("BAD_NAXES")
              ELSE IF env.at = "fits_create_img" THEN LibStatus("WRITE_ERROR")
              ELSE 0
    IN  [m EXCEPT !.status = st,
                  !.calls = Append(m.calls,
                              Entry("fits_create_img", st, "", "",
                                    st = LibStatus("WRITE_ERROR"))),
                  !.fs = IF st = 0
                         THEN [m.fs EXCEPT !.stage = "allocated", !.naxis = 2,
                                           !.naxes = naxes, !.bitpix = bitpix,
                                           !.pix = ZeroFill(naxes)]
                         ELSE m.fs]

\* fits_write_pix(fptr, TFLOAT, fpixel, npixels, array, &status).  Reading
\* npixels samples from an array that holds fewer runs off its end: the
\* process dies or the library gives up with an error.
fits_write_pix(m, npixels, array, env) ==
    IF ~IsSmall(npixels) \/ npixels.lo > Len(array)
    THEN IF env.ub = "crash"
         THEN [m EXCEPT !.crashed = TRUE,
                        !.calls = Append(m.calls,
                                    Entry("fits_write_pix", 0, "", "TFLOAT", FALSE))]
         ELSE [m EXCEPT !.status = LibStatus("WRITE_ERROR"),
                        !.calls = Append(m.calls,
                                    Entry("fits_write_pix", LibStatus("WRITE_ERROR"), "", "TFLOAT",
                                          FALSE))]
    ELSE LET st == IF env.at = "fits_write_pix" THEN LibStatus("WRITE_ERROR") ELSE 0
         IN  [m EXCEPT !.status = st,
                       !.calls = Append(m.calls, Entry("fits_write_pix", st, "", "TFLOAT", st # 0)),
                       !.fs = IF st = 0
                              THEN [m.fs EXCEPT !.stage = "written",
                                       !.pix = [i \in 1..npixels.lo |->
                                                   StoredSample(m.fs.bitpix, array[i])]]
                              ELSE m.fs]

\* fits_get_img_param(fptr, 2, &bitpix, &naxis, naxes, &status)
fits_get_img_param(m, env) ==
    LET st == IF env.at = "fits_get_img_param" THEN LibStatus("READ_ERROR") ELSE 0
    IN  [m EXCEPT !.status = st,
                  !.calls = Log(m, "fits_get_img_param", st, st # 0),
                  !.naxis = IF st = 0 THEN m.fs.naxis ELSE m.naxis,
                  !.naxes = IF st = 0 THEN m.fs.naxes ELSE m.naxes]

Digits == <<"0", "1", "2", "3", "4", "5", "6", "7", "8", "9">>

IsDigit(c) == \E d \in 1..10 : Digits[d] = c

DigitValue(c) == (CHOOSE d \in 1..10 : Digits[d] = c) - 1

RECURSIVE NatToChars(_)
NatToChars(n) ==
    IF n < 10 THEN <<Digits[n + 1]>>
    ELSE Append(NatToChars(n \div 10), Digits[(n % 10) + 1])

RECURSIVE CharsToNat(_)
CharsToNat(ds) ==
    IF ds = << >> THEN 0
    ELSE 10 * CharsToNat(SubSeq(ds, 1, Len(ds) - 1)) + DigitValue(ds[Len(ds)])

\* The linear scaling the library applies to the samples it reads: the
\* value of the BSCALE record of the header when it is a run of digits, else
\* 1.  The library takes it from the header when it opens the file.
BScale(cards) ==
    LET scales == {c \in DOMAIN cards :
                        /\ cards[c].key = "BSCALE" /\ cards[c].value # << >>
                        /\ \A d \in DOMAIN cards[c].value : IsDigit(cards[c].value[d])}
    IN  IF scales = {} THEN 1
        ELSE CharsToNat(cards[CHOOSE c \in scales : \A d \in scales : c <= d].value)

\* The samples as fits_read_pix hands them out: stored value * BSCALE.
Scaled(f) == [x \in DOMAIN f.pix |-> f.pix[x] * BScale(f.cards)]

\* malloc(npixels * sizeof(float)) followed by
\* fits_read_pix(fptr, TFLOAT, fpixel, npixels, NULL, pixels, NULL, &status).
\* malloc is not checked: storing samples through NULL kills the process, or
\* the library fails to read into the buffer.
\* When the data unit is shorter than the header declares (npixels * 4 then
\* wraps to a zero-byte buffer) the read runs off the file or off the buffer.
fits_read_pix(m, npixels, env) ==
    IF env.at = "malloc" /\ (~IsSmall(npixels) \/ npixels.lo > 0)
    THEN IF env.ub = "crash"
         THEN [m EXCEPT !.crashed = TRUE,
                        !.calls = Append(Log(m, "malloc", 1, TRUE),
                                         Entry("fits_read_pix", 0, "", "TFLOAT", FALSE))]
         ELSE [m EXCEPT !.status = LibStatus("READ_ERROR"),
                        !.calls = Append(Log(m, "malloc", 1, TRUE),
                                         Entry("fits_read_pix", LibStatus("READ_ERROR"), "",
                                               "TFLOAT", FALSE))]
    ELSE IF ~DataComplete(m.fs)
    THEN IF env.ub = "crash"
         THEN [m EXCEPT !.crashed = TRUE,
                        !.calls = Append(m.calls, Entry("fits_read_pix", 0, "", "TFLOAT", FALSE))]
         ELSE [m EXCEPT !.status = LibStatus("END_OF_FILE"),
                        !.calls = Append(m.calls,
                                    Entry("fits_read_pix", LibStatus("END_OF_FILE"), "",
                                          "TFLOAT", FALSE))]
    ELSE LET st == IF env.at = "fits_read_pix" THEN LibStatus("READ_ERROR") ELSE 0
         IN  [m EXCEPT !.status = st,
                       !.calls = Append(m.calls, Entry("fits_read_pix", st, "", "TFLOAT", st # 0)),
                       !.pixels = IF st = 0 THEN Scaled(m.fs) ELSE << >>]

\* What a NIF hands back: the term, the file it leaves and its call log.
Return(m, term) == [fs |-> m.fs, res |-> term, calls |-> m.calls]

(***************************************************************************)
(* Entry points that touch the image only.  a holds the arguments: argc,   *)
(* data, width, height, bitpix (read when argc >= 5), header (argc = 6).   *)
(***************************************************************************)
\* open_fits/1
open_fits(f, env) ==
    LET m1 == fits_open_file(Start(f), env)
    IN  IF m1.status # 0
        THEN Return(m1, ErrorStatusTerm(m1.status))
        ELSE Return(fits_close_file(m1, env), OkAtom)

\* if (status || naxis != 2)
NotTwoDimensional(status, naxis) == status # 0 \/ naxis # 2

\* read_image/1
read_image(f, env) ==
    LET m1 == fits_open_file(Start(f), env)
        m2 == fits_get_img_param(m1, env)
        m2c == fits_close_file(m2, env)
        npixels == LongMul(m2.naxes[1], m2.naxes[2])
        m3 == fits_read_pix(m2, npixels, env)
        m4 == fits_close_file(m3, env)
    IN  IF m1.status # 0 THEN Return(m1, ErrorStatusTerm(m1.status))
        ELSE IF NotTwoDimensional(m2.status, m2.naxis)
             THEN Return(m2c, ErrorStatusTerm(m2c.status))
        ELSE IF m3.crashed THEN Return(m3, Crashed)
        ELSE IF m4.status # 0 THEN Return(m4, ErrorStatusTerm(m4.status))
        ELSE IF env.at = "enif_alloc_binary"
             THEN Return([m4 EXCEPT !.calls = Log(m4, "enif_alloc_binary", 1, TRUE)], BareError)
        ELSE Return(m4, OkImage(m2.naxes[1], m2.naxes[2], m3.pixels))

\* The format code argument left unread.
BitpixArgIgnored(a) == FLOAT_IMG

\* int bitpix = FLOAT_IMG, replaced by the 5th argument when there is one
BitpixArg(a) == IF a.argc >= 5 THEN a.bitpix ELSE FLOAT_IMG

\* if (width * height * sizeof(float) != bin_data.size)
DimensionsMismatch(width, height, data) == ByteCount(width, height) # BinSize(data)

\* The same steps returning at a failure without closing the handle.
WritePixelsNoClose(m1, a, env) ==
    LET m2 == fits_create_img(m1, BitpixArg(a), <<a.width, a.height>>, env)
        m3 == fits_write_pix(m2, LongMul(a.width, a.height), a.data, env)
    IN  IF m2.status # 0 THEN m2 ELSE m3

\* The part of write_image and write_fits_file that follows fits_create_file:
\* allocate the image, write the samples, close on failure.
WritePixels(m1, a, env) ==
    LET m2 == fits_create_img(m1, BitpixArg(a), <<a.width, a.height>>, env)
        m3 == fits_write_pix(m2, LongMul(a.width, a.height), a.data, env)
    IN  IF m2.status # 0 THEN fits_close_file(m2, env)
        ELSE IF m3.crashed THEN m3
        ELSE IF m3.status # 0 THEN fits_close_file(m3, env)
        ELSE m3

\* write_image/4, write_image/5
write_image(f, a, env) ==
    LET m1 == fits_create_file(Start(f), env)
        m3 == WritePixels(m1, a, env)
        m4 == fits_close_file(m3, env)
    IN  IF DimensionsMismatch(a.width, a.height, a.data)
        THEN Return(Start(f), ErrorAtomTerm("dimensions_mismatch"))
        ELSE IF m1.status # 0 THEN Return(m1, ErrorStatusTerm(m1.status))
        ELSE IF m3.crashed THEN Return(m3, Crashed)
        ELSE IF m3.status # 0 THEN Return(m3, ErrorStatusTerm(m3.status))
        ELSE IF m4.status # 0 THEN Return(m4, ErrorStatusTerm(m4.status))
        ELSE Return(m4, OkAtom)

(***************************************************************************)
(* Header values.  Text is a tuple of one-character strings.  A term of    *)
(* the caller is t = "int" (n a long), "float" (n.lo counted in tenths),   *)
(* "list" (a character list s), "bin" (a binary s) or "atom".              *)
(***************************************************************************)
\* 2^62 in decimal
BigChars ==
    <<"4", "6", "1", "1", "6", "8", "6", "0", "1", "8",
      "4", "2", "7", "3", "8", "7", "9", "0", "4">>

LongToChars(x) ==
    IF x = Big THEN BigChars
    ELSE IF x.lo < 0 THEN <<"-">> \o NatToChars(0 - x.lo)
    ELSE NatToChars(x.lo)

CharsToLong(ds) == IF ds = BigChars THEN Big ELSE Small(CharsToNat(ds))

IntTerm(x) == [t |-> "int", n |-> x, s |-> << >>]

FloatTerm(tenths) == [t |-> "float", n |-> Small(tenths), s |-> << >>]

ListTerm(chars) == [t |-> "list", n |-> Small(0), s |-> chars]

BinTerm(chars) == [t |-> "bin", n |-> Small(0), s |-> chars]

FLEN_VALUE == 71

\* Keys of the mapping that are no atoms.
NonAtomKeys == {"<<\"OBJECT\">>"}

\* enif_get_atom(env, key, key_str, sizeof(key_str), ERL_NIF_LATIN1)
enif_get_atom(key) == key \notin NonAtomKeys

\* enif_get_string(env, value, buf, size, ERL_NIF_LATIN1): the number of
\* bytes written, -size when the list was truncated, 0 when the term is no
\* character list.
enif_get_string(value, size) ==
    IF value.t # "list" THEN 0
    ELSE IF Len(value.s) + 1 > size THEN 0 - size
    ELSE Len(value.s) + 1

\* const char* skip_keys[]
skip_keys == {"SIMPLE", "BITPIX", "NAXIS", "NAXIS1", "NAXIS2", "NAXIS3", "END"}

(***************************************************************************)
(* The library's side of a header: how fits_update_key writes a value      *)
(* field and which records a header holds.                                 *)
(***************************************************************************)
RECURSIVE PadTo(_, _)
PadTo(chars, n) == IF Len(chars) >= n THEN chars ELSE PadTo(Append(chars, " "), n)

\* The value field of the card the library writes: an integer as its decimal
\* digits, a double with a decimal point (1.5, 2.), a string between quotes
\* and blank-padded to eight characters.
ValueField(tag, cval) ==
    CASE tag = "TLONG" -> LongToChars(cval)
      [] tag = "TDOUBLE" ->
            NatToChars(cval \div 10) \o <<".">> \o
                (IF cval % 10 = 0 THEN << >> ELSE <<Digits[(cval % 10) + 1]>>)
      [] tag = "TSTRING" -> <<"'">> \o PadTo(cval, 8) \o <<"'">>

Card(key, value) == [key |-> key, value |-> value]

\* The records fits_create_img writes, in file order.
StructuralCards(f) ==
    <<Card("SIMPLE", <<"T">>), Card("BITPIX", LongToChars(Small(f.bitpix))),
      Card("NAXIS", NatToChars(f.naxis)),
      Card("NAXIS1", LongToChars(f.naxes[1])), Card("NAXIS2", LongToChars(f.naxes[2]))>>
    \o (IF f.naxis = 3 THEN <<Card("NAXIS3", <<"1">>)>> ELSE << >>)
    \o <<Card("EXTEND", <<"T">>), Card("COMMENT", << >>), Card("COMMENT", << >>)>>

Records(f) == StructuralCards(f) \o f.cards

\* The cards with the value of the first record that has the key replaced,
\* or with a new record at the end.
Upsert(cards, key, value) ==
    IF \E i \in DOMAIN cards : cards[i].key = key
    THEN LET j == CHOOSE i \in DOMAIN cards :
                    cards[i].key = key /\ \A k \in 1..(i - 1) : cards[k].key # key
         IN  [cards EXCEPT ![j].value = value]
    ELSE Append(cards, Card(key, value))

\* fits_update_key(fptr, tag, key_str, &value, NULL, &key_status): key_status
\* is a variable of its own, status is not touched.  An update of NAXIS1 or
\* NAXIS2 rewrites the image's declared shape.
fits_update_key(m, tag, key, cval, env) ==
    LET st == IF key \in env.keys THEN LibStatus("BAD_KEYCHAR") ELSE 0
        f == m.fs
        g == IF key = "NAXIS1" /\ tag = "TLONG" THEN [f EXCEPT !.naxes[1] = cval]
             ELSE IF key = "NAXIS2" /\ tag = "TLONG" THEN [f EXCEPT !.naxes[2] = cval]
             ELSE IF key \in skip_keys THEN f
             ELSE [f EXCEPT !.cards = Upsert(f.cards, key, ValueField(tag, cval))]
    IN  [m EXCEPT !.calls = Append(m.calls, Entry("fits_update_key", st, key, tag, st # 0)),
                  !.fs = IF st = 0 THEN g ELSE f]

(***************************************************************************)
(* Writing header cards.                                                   *)
(***************************************************************************)
\* The order in which the map iterator yields the keys of a mapping.
KeyOrder == <<"BSCALE", "EXPTIME", "NAXIS1", "OBJECT", "<<\"OBJECT\">>">>

IterationOrder(header) ==
    SelectSeq(KeyOrder, LAMBDA k : k \in DOMAIN header)

\* A skip list that leaves the axis lengths out.
IsSkippedAxesOpen(key) == key \in {"SIMPLE", "BITPIX", "NAXIS", "END"}

\* for (i = 0; skip_keys[i] != NULL; i++) if (strcmp(key_str, skip_keys[i]) == 0) skip = 1
IsSkipped(key) == key \in skip_keys

\* The type dispatch of the loop body: one fits_update_key call, or none.
encode_update(m, key, value, env) ==
    IF value.t = "int" THEN fits_update_key(m, "TLONG", key, value.n, env)
    ELSE IF value.t = "float" THEN fits_update_key(m, "TDOUBLE", key, value.n.lo, env)
    ELSE IF value.t \in {"bin", "list"}
         THEN IF enif_get_string(value, FLEN_VALUE) > 0
              THEN fits_update_key(m, "TSTRING", key, value.s, env)
              ELSE m
    ELSE m

\* if (status > 0) break;  (write_header_cards; write_fits_file has no break)
AbortLoop(status) == status > 0

\* enif_map_iterator_get_pair(env, &iter, &key, &value) with the iterator on
\* entry i of keys: the pair of the entry, or nothing at the tail.
enif_map_iterator_get_pair(m, keys, i) ==
    [m EXCEPT !.calls =
        Append(m.calls,
               IF i <= Len(keys)
               THEN Entry("enif_map_iterator_get_pair", 0, keys[i], "pair", FALSE)
               ELSE Entry("enif_map_iterator_get_pair", 0, "", "tail", FALSE))]

\* The loop with continue leaving it, as break does.
RECURSIVE HeaderLoopContinueLeaves(_, _, _, _, _)
HeaderLoopContinueLeaves(m, header, i, breaks, env) ==
    LET keys == IterationOrder(header)
        key == keys[i]
        m0 == enif_map_iterator_get_pair(m, keys, i)
        continued == i > Len(keys) \/ ~enif_get_atom(key) \/ IsSkipped(key)
        m1 == IF continued THEN m0 ELSE encode_update(m0, key, header[key], env)
    IN  IF continued \/ (breaks /\ AbortLoop(m1.status)) THEN m1
        ELSE IF i + 1 <= Len(keys)
             THEN HeaderLoopContinueLeaves(m1, header, i + 1, breaks, env)
        ELSE m1

\* do { ... } while (enif_map_iterator_next(env, &iter)) with the iterator on
\* entry i of the n entries; i > n is the iterator of an empty mapping, whose
\* get_pair fails.  continue goes to the test of the loop, which advances the
\* iterator as the end of the body does.
RECURSIVE HeaderLoop(_, _, _, _, _)
HeaderLoop(m, header, i, breaks, env) ==
    LET keys == IterationOrder(header)
        key == keys[i]
        m0 == enif_map_iterator_get_pair(m, keys, i)
        continued == i > Len(keys) \/ ~enif_get_atom(key) \/ IsSkipped(key)
        m1 == IF continued THEN m0 ELSE encode_update(m0, key, header[key], env)
    IN  IF ~continued /\ breaks /\ AbortLoop(m1.status) THEN m1
        ELSE IF i + 1 <= Len(keys) THEN HeaderLoop(m1, header, i + 1, breaks, env)
        ELSE m1

\* fits_movabs_hdu(fptr, 1, NULL, &status)
fits_movabs_hdu(m, env) ==
    LET st == IF env.at = "fits_movabs_hdu" THEN LibStatus("BAD_HDU_NUM") ELSE 0
    IN  [m EXCEPT !.status = st, !.calls = Log(m, "fits_movabs_hdu", st, st # 0)]

\* FILE *f = fopen(filename, "r")
fopen(m) == [m EXCEPT !.calls = Log(m, "fopen", IF m.fs.exists THEN 0 ELSE 1, FALSE)]

\* fits_close_file with its status dropped.
CloseAndReturnOk(m, env) == Return(fits_close_file(m, env), OkAtom)

\* fits_close_file, then {error, status} or ok
CloseAndReturn(m, env) ==
    LET mc == fits_close_file(m, env)
    IN  IF mc.status # 0 THEN Return(mc, ErrorStatusTerm(mc.status)) ELSE Return(mc, OkAtom)

\* write_header_cards without the test of fopen's result.
write_header_cards_unchecked(f, a, env) ==
    LET m0 == fopen(Start(f))
        m1 == fits_open_file(m0, env)
        m2 == fits_movabs_hdu(m1, env)
        m2c == fits_close_file(m2, env)
        m3 == HeaderLoop(m2, a.header, 1, TRUE, env)
    IN  IF m1.status # 0 THEN Return(m1, ErrorStatusTerm(m1.status))
        ELSE IF m2.status # 0 THEN Return(m2c, ErrorStatusTerm(m2c.status))
        ELSE CloseAndReturn(m3, env)

\* write_header_cards/2
write_header_cards(f, a, env) ==
    LET m0 == fopen(Start(f))
        m1 == fits_open_file(m0, env)
        m2 == fits_movabs_hdu(m1, env)
        m2c == fits_close_file(m2, env)
        m3 == HeaderLoop(m2, a.header, 1, TRUE, env)
    IN  IF ~f.exists THEN Return(m0, ErrorAtomTerm("file_not_found"))
        ELSE IF m1.status # 0 THEN Return(m1, ErrorStatusTerm(m1.status))
        ELSE IF m2.status # 0 THEN Return(m2c, ErrorStatusTerm(m2c.status))
        ELSE CloseAndReturn(m3, env)

\* write_fits_file going on to the header stage after a failed pixel stage.
write_fits_file_no_return(f, a, env) ==
    LET m0 == remove(Start(f))
        m1 == fits_create_file(m0, env)
        m3 == WritePixels(m1, a, env)
        m4 == IF a.argc = 6 THEN HeaderLoop(m3, a.header, 1, FALSE, env) ELSE m3
    IN  IF DimensionsMismatch(a.width, a.height, a.data)
        THEN Return(Start(f), ErrorAtomTerm("dimensions_mismatch"))
        ELSE IF env.at = "malloc"
             THEN Return([Start(f) EXCEPT !.calls = Log(Start(f), "malloc", 1, TRUE)],
                         ErrorAtomTerm("memory_allocation_failure"))
        ELSE IF m1.status # 0 THEN Return(m1, ErrorStatusTerm(m1.status))
        ELSE IF m3.crashed THEN Return(m3, Crashed)
        ELSE CloseAndReturn(m4, env)

\* write_fits_file/4, /5, /6
write_fits_file(f, a, env) ==
    LET m0 == remove(Start(f))
        m1 == fits_create_file(m0, env)
        m3 == WritePixels(m1, a, env)
        m4 == IF a.argc = 6 THEN HeaderLoop(m3, a.header, 1, FALSE, env) ELSE m3
    IN  IF DimensionsMismatch(a.width, a.height, a.data)
        THEN Return(Start(f), ErrorAtomTerm("dimensions_mismatch"))
        ELSE IF env.at = "malloc"
             THEN Return([Start(f) EXCEPT !.calls = Log(Start(f), "malloc", 1, TRUE)],
                         ErrorAtomTerm("memory_allocation_failure"))
        ELSE IF m1.status # 0 THEN Return(m1, ErrorStatusTerm(m1.status))
        ELSE IF m3.crashed THEN Return(m3, Crashed)
        ELSE IF m3.status # 0 THEN Return(m3, ErrorStatusTerm(m3.status))
        ELSE CloseAndReturn(m4, env)

(***************************************************************************)
(* Reading the header.                                                     *)
(***************************************************************************)
RECURSIVE SpaceRun(_, _)
SpaceRun(s, i) == IF i <= Len(s) /\ s[i] = " " THEN SpaceRun(s, i + 1) ELSE i

RECURSIVE DigitRun(_, _)
DigitRun(s, i) == IF i <= Len(s) /\ IsDigit(s[i]) THEN DigitRun(s, i + 1) ELSE i

Negate(x) == Long(0 - x.hi, 0 - x.lo)

\* strtol(value, &endptr, 10): blanks, an optional sign, digits.  end is the
\* index endptr points at; without a digit nothing is converted and endptr
\* is value itself.
strtol(s) ==
    LET b == SpaceRun(s, 1)
        c == IF b <= Len(s) /\ s[b] \in {"+", "-"} THEN b + 1 ELSE b
        e == DigitRun(s, c)
        v == CharsToLong(SubSeq(s, c, e - 1))
    IN  IF e = c THEN [val |-> Small(0), end |-> 1]
        ELSE [val |-> IF c > b /\ s[b] = "-" THEN Negate(v) ELSE v, end |-> e]

\* sscanf(value, "%lf", &dval), in tenths: blanks, an optional sign, digits
\* with an optional decimal point.  Without a digit nothing is stored and
\* dval keeps whatever the stack held (junk).
sscanf_lf(s, junk) ==
    LET b == SpaceRun(s, 1)
        c == IF b <= Len(s) /\ s[b] \in {"+", "-"} THEN b + 1 ELSE b
        e == DigitRun(s, c)
        point == e <= Len(s) /\ s[e] = "."
        g == IF point THEN DigitRun(s, e + 1) ELSE e
        whole == CharsToNat(SubSeq(s, c, e - 1))
        frac == IF point /\ g > e + 1 THEN DigitValue(s[e + 1]) ELSE 0
        v == 10 * whole + frac
    IN  IF e = c /\ (~point \/ g = e + 1) THEN junk
        ELSE IF c > b /\ s[b] = "-" THEN 0 - v ELSE v

HasChar(s, c) == \E i \in DOMAIN s : s[i] = c

\* The classification of a value field (the if / else if / else of the loop).
decode_value(value, junk) ==
    IF Len(value) >= 1 /\ value[1] = "'"
    THEN IF Len(value) >= 2 /\ value[Len(value)] = "'"
         THEN ListTerm(SubSeq(value, 2, Len(value) - 1))
         ELSE ListTerm(value)
    ELSE IF HasChar(value, ".") THEN FloatTerm(sscanf_lf(value, junk))
    ELSE IF strtol(value).end = Len(value) + 1 THEN IntTerm(strtol(value).val)
    ELSE ListTerm(value)

\* The test of the keyword without HISTORY.
CarriesValueOrHistory(key) == key # "COMMENT" /\ key # ""

\* strcmp(key, "COMMENT") != 0 && strcmp(key, "HISTORY") != 0 && strlen(key) > 0
CarriesValue(key) == key # "COMMENT" /\ key # "HISTORY" /\ key # ""

\* A put that leaves the entry of a key that is already there.
MapPutKeepFirst(map, key, value) ==
    [k \in DOMAIN map \cup {key} |-> IF k \in DOMAIN map THEN map[k] ELSE value]

\* enif_make_map_put
MapPut(map, key, value) ==
    [k \in DOMAIN map \cup {key} |-> IF k = key THEN value ELSE map[k]]

\* fits_get_hdrpos(fptr, &nkeys, &keypos, &status)
fits_get_hdrpos(m, env) ==
    LET st == IF env.at = "fits_get_hdrpos" THEN LibStatus("BAD_HEADER_FILL") ELSE 0
    IN  [m EXCEPT !.status = st, !.calls = Log(m, "fits_get_hdrpos", st, st # 0)]

\* fits_read_record handed a status that was set back to zero for the record.
fits_read_record_fresh_status(m, i, env) ==
    LET inj == env.at = "fits_read_record" /\ env.rec = i
        st == IF inj THEN LibStatus("KEY_OUT_BOUNDS") ELSE 0
    IN  [m EXCEPT !.status = st, !.calls = Log(m, "fits_read_record", st, inj)]

\* fits_read_record(fptr, i, card, &status)
fits_read_record(m, i, env) ==
    LET inj == m.status = 0 /\ env.at = "fits_read_record" /\ env.rec = i
        st == IF m.status # 0 THEN m.status
              ELSE IF inj THEN LibStatus("KEY_OUT_BOUNDS") ELSE 0
    IN  [m EXCEPT !.status = st, !.calls = Log(m, "fits_read_record", st, inj)]

\* fits_get_keyname(card, key, &keylen, &status)
fits_get_keyname(m, i, env) ==
    LET inj == env.at = "fits_get_keyname" /\ env.rec = i
        st == IF inj THEN LibStatus("BAD_KEYCHAR") ELSE m.status
    IN  [m EXCEPT !.status = st, !.calls = Log(m, "fits_get_keyname", st, inj)]

\* fits_parse_value(card, value, comment, &status)
fits_parse_value(m, i, env) ==
    LET inj == env.at = "fits_parse_value" /\ env.rec = i
        st == IF inj THEN LibStatus("NO_QUOTE") ELSE m.status
    IN  [m EXCEPT !.status = st, !.calls = Log(m, "fits_parse_value", st, inj)]

\* for (int i = 1; i <= nkeys; i++) { ... }: the running call and the map
\* built so far, or the failure of fits_read_record.
RECURSIVE RecordLoop(_, _, _, _, _)
RecordLoop(m, recs, map, i, env) ==
    LET m1 == fits_read_record(m, i, env)
        m2 == fits_get_keyname(m1, i, env)
        m3 == fits_parse_value(m2, i, env)
        key == recs[i].key
    IN  IF i > Len(recs) THEN [m |-> m, map |-> map, failed |-> FALSE]
        ELSE IF m1.status # 0 THEN [m |-> m1, map |-> map, failed |-> TRUE]
        ELSE IF m2.status # 0 THEN RecordLoop(m2, recs, map, i + 1, env)
        ELSE IF ~CarriesValue(key) THEN RecordLoop(m2, recs, map, i + 1, env)
        ELSE RecordLoop(m3, recs, MapPut(map, key, decode_value(recs[i].value, env.junk)),
                        i + 1, env)

\* read_header/1
read_header(f, env) ==
    LET m1 == fits_open_file(Start(f), env)
        m2 == fits_get_hdrpos(m1, env)
        m2c == fits_close_file(m2, env)
        loop == RecordLoop(m2, Records(f), EmptyMap, 1, env)
        lc == fits_close_file(loop.m, env)
    IN  IF m1.status # 0 THEN Return(m1, ErrorStatusTerm(m1.status))
        ELSE IF m2.status # 0 THEN Return(m2c, ErrorStatusTerm(m2c.status))
        ELSE IF loop.failed THEN Return(lc, ErrorStatusTerm(lc.status))
        ELSE IF lc.status # 0 THEN Return(lc, ErrorStatusTerm(lc.status))
        ELSE Return(lc, OkHeader(loop.map))

(***************************************************************************)
(* Inputs.                                                                 *)
(***************************************************************************)
\* (width, height) pairs: every small width with height 1, both negative,
\* and 2^62 x 1, whose byte count is 2^64.  None overflows width * height.
Dims ==
    {<<w, Small(1)>> : w \in {Small(n) : n \in (0 - 1)..MaxDim} \cup {Big}}
        \cup {<<Small(0 - 1), Small(0 - 1)>>}

BitpixArgs == {SHORT_IMG, 7}

\* char filename[1024]
PathSize == 1024

\* Paths are byte sequences without a zero byte (file-system paths), told
\* apart by their length: the longest path the buffer holds with its
\* terminator, and the two lengths that follow it.
FullPath == PathSize - 1

LongPaths == {PathSize, PathSize + 1}

\* The size test with > for >=.
PathRejectedAbove(plen) == plen > PathSize

\* bin_filename.size >= sizeof(filename)
PathRejected(plen) == plen >= PathSize

\* memcpy(filename, bin_filename.data, bin_filename.size);
\* filename[bin_filename.size] = '\0': the length of the string the buffer
\* then holds, and whether the copy ran over the end of the buffer.
CopyPath(plen) ==
    [len |-> IF plen < PathSize THEN plen ELSE PathSize, overflow |-> plen >= PathSize]

NoFilename == [len |-> 0, overflow |-> FALSE]

NoArgs ==
    [argc |-> 0, data |-> << >>, width |-> Small(0), height |-> Small(0),
     bitpix |-> 0, header |-> EmptyMap, path |-> FullPath]

\* The arguments of a call on a path too long for the buffer.
LongPathArgs == {[NoArgs EXCEPT !.path = n] : n \in LongPaths}

\* The arguments of the NIFs that take a path alone.
PathArgs == {NoArgs} \cup LongPathArgs

\* Without a format code: every buffer with every shape.  With one: the
\* buffers of a single row, with their own length as the width.
ImageArgs ==
    {[NoArgs EXCEPT !.argc = 4, !.data = b, !.width = d[1], !.height = d[2]] :
        b \in Buffers, d \in Dims}
    \cup
    {[NoArgs EXCEPT !.argc = 5, !.data = b, !.width = Small(Len(b)), !.height = Small(1),
                    !.bitpix = bp] :
        b \in Buffers \ {<< >>}, bp \in BitpixArgs}

NoEnv == [at |-> "none", keys |-> {}, rec |-> 0, ub |-> "crash", junk |-> 0]

\* One call of those named fails, or none does; an out-of-bounds access
\* either kills the process or ends in a library error.
Envs(ats) ==
    {[NoEnv EXCEPT !.at = x] : x \in ats \cup {"none"}} \cup {[NoEnv EXCEPT !.ub = "fail"]}

\* Header mappings: at most MaxEntries entries out of these keys and values.
M31 == <<"M", "3", "1">>

LongText == [i \in 1..FLEN_VALUE |-> "A"]

ValuesOf(key) ==
    CASE key = "NAXIS1" -> {IntTerm(Small(9))}
      [] key = "OBJECT" -> {ListTerm(M31), BinTerm(M31), ListTerm(LongText)}
      [] key = "EXPTIME" -> {FloatTerm(15)}
      [] key = "BSCALE" -> {IntTerm(Small(2))}
      [] key \in NonAtomKeys -> {ListTerm(M31)}

HeaderKeys == {"NAXIS1", "OBJECT", "EXPTIME", "BSCALE"} \cup NonAtomKeys

HeaderMaps ==
    UNION {{h \in [D -> UNION {ValuesOf(k) : k \in D}] : \A k \in D : h[k] \in ValuesOf(k)} :
            D \in {E \in SUBSET HeaderKeys : Cardinality(E) <= MaxEntries}}

HeaderArgs == {[NoArgs EXCEPT !.argc = 2, !.header = h] : h \in HeaderMaps}

\* write_fits_file/6: an image of one sample, of two, and a mismatch.
FullArgs ==
    {[NoArgs EXCEPT !.argc = 6, !.data = sh[3], !.width = sh[1], !.height = sh[2],
                    !.bitpix = FLOAT_IMG, !.header = h] :
        sh \in {<<Small(1), Small(1), <<3>> >>, <<Small(2), Small(1), <<3, 0>> >>,
                <<Small(2), Small(1), <<3>> >>},
        h \in HeaderMaps}

\* The environment of a header write: any set of the keys fails to update,
\* alone or together with the failure of fits_close_file; or one other call
\* fails.
KeyEnvs(header, ats) ==
    {[NoEnv EXCEPT !.at = x, !.keys = K] :
        x \in {"none", "fits_close_file"},
        K \in SUBSET (DOMAIN header \ (skip_keys \cup NonAtomKeys))}
    \cup Envs(ats)

\* The environment of read_header: record i cannot be read, named or parsed.
MaxRecords == 20

RecordEnvs ==
    {[NoEnv EXCEPT !.at = x, !.rec = i, !.junk = j] :
        x \in {"fits_read_record", "fits_get_keyname", "fits_parse_value"},
        i \in 1..MaxRecords, j \in {0}}
    \cup {[NoEnv EXCEPT !.junk = 7]}
    \cup Envs({"fits_open_file", "fits_get_hdrpos", "fits_close_file"})

\* Files written by other software that the NIFs may be pointed at: a cube,
\* and an image whose header shows every kind of value field.
ForeignCards ==
    <<Card("OBJECT", <<"'">> \o PadTo(M31, 8) \o <<"'">>),
      Card("QNUM", <<"'", "1", "2", "0", "'">>),
      Card("NUM", <<"1", "2", "0">>),
      Card("QFLT", <<"'", "1", ".", "5", "'">>),
      Card("FLT", <<"1", ".", "5">>),
      Card("NEG", <<"-", "7">>),
      Card("FLAG", <<"T">>),
      Card("MIXED", <<"1", "2", "A">>),
      Card("NOVAL", << >>),
      Card("COMMENT", << >>),
      Card("HISTORY", << >>),
      Card("", << >>),
      Card("DUP", <<"1">>),
      Card("DUP", <<"2">>)>>

ForeignFiles ==
    { [NoFile EXCEPT !.exists = TRUE, !.stage = "written", !.naxis = 3,
                     !.naxes = <<Small(1), Small(1)>>, !.bitpix = FLOAT_IMG,
                     !.pix = <<3>>],
      [NoFile EXCEPT !.exists = TRUE, !.stage = "written", !.naxis = 2,
                     !.naxes = <<Small(1), Small(1)>>, !.bitpix = FLOAT_IMG,
                     !.pix = <<3>>, !.cards = ForeignCards] }

(***************************************************************************)
(* The state machine.  A call runs to completion in one step and leaves    *)
(* its record in last; Resume hands the term to the caller, which may then *)
(* call again.  declared is the width given to the last image write that   *)
(* returned ok, for as long as the file it wrote is the stored one.        *)
(***************************************************************************)
NoCall ==
    [op |-> "none", args |-> NoArgs, res |-> Term("none", "", 0), calls |-> << >>,
     filename |-> NoFilename]

Ran(op, a, r) ==
    [op |-> op, args |-> a, res |-> r.res, calls |-> r.calls, filename |-> CopyPath(a.path)]

NoWidth == Long(0 - 1, 0)

\* The file was removed or created anew by the call.
Replaced(calls) ==
    \E i \in DOMAIN calls : calls[i].fn \in {"remove", "fits_create_file"} /\ calls[i].st = 0

Declare(a, r) ==
    IF r.res = OkAtom THEN a.width
    ELSE IF Replaced(r.calls) THEN NoWidth
    ELSE declared

Ready == last.op = "none"

\* The environments of a call: none matters when the path is turned down.
EnvsFor(a, envs) == IF PathRejected(a.path) THEN {NoEnv} ELSE envs

\* One call of a NIF: the path is turned down with badarg before anything
\* else happens, or it is copied into filename and the body r runs.
Step(op, a, r) ==
    IF PathRejected(a.path)
    THEN /\ last' = [NoCall EXCEPT !.op = op, !.args = a, !.res = Badarg]
         /\ UNCHANGED <<fs, declared>>
    ELSE /\ fs' = r.fs
         /\ last' = Ran(op, a, r)
         /\ declared' = IF op \in {"write_image", "write_fits_file"}
                        THEN Declare(a, r)
                        ELSE declared

Init ==
    /\ fs \in {NoFile} \cup ForeignFiles
    /\ last = NoCall
    /\ declared = NoWidth

OpenFits ==
    /\ Ready
    /\ \E a \in PathArgs :
       \E env \in EnvsFor(a, Envs({"fits_open_file", "fits_close_file"})) :
        Step("open_fits", a, open_fits(fs, env))

ReadImage ==
    /\ Ready
    /\ \E a \in PathArgs :
       \E env \in EnvsFor(a, Envs({"fits_open_file", "fits_get_img_param", "malloc",
                                   "fits_read_pix", "fits_close_file", "enif_alloc_binary"})
                               \cup {[NoEnv EXCEPT !.at = "malloc", !.ub = "fail"]}) :
        Step("read_image", a, read_image(fs, env))

WriteImage ==
    /\ Ready
    /\ \E a \in ImageArgs \cup LongPathArgs :
       \E env \in EnvsFor(a, Envs({"fits_create_file", "fits_create_img", "fits_write_pix",
                                   "fits_close_file"})) :
        Step("write_image", a, write_image(fs, a, env))

ReadHeader ==
    /\ Ready
    /\ \E a \in PathArgs :
       \E env \in EnvsFor(a, RecordEnvs) :
        Step("read_header", a, read_header(fs, env))

WriteHeaderCards ==
    /\ Ready
    /\ \E a \in HeaderArgs \cup LongPathArgs :
       \E env \in EnvsFor(a, KeyEnvs(a.header, {"fits_open_file", "fits_movabs_hdu"})) :
        Step("write_header_cards", a, write_header_cards(fs, a, env))

WriteFitsFile ==
    /\ Ready
    /\ \E a \in ImageArgs \cup FullArgs \cup LongPathArgs :
       \E env \in EnvsFor(a, KeyEnvs(a.header, {"malloc", "fits_create_file",
                                                "fits_create_img", "fits_write_pix"})) :
        Step("write_fits_file", a, write_fits_file(fs, a, env))

\* The caller takes the returned term.
Resume ==
    /\ ~Ready
    /\ last' = NoCall
    /\ UNCHANGED <<fs, declared>>

Next ==
    \/ OpenFits
    \/ ReadImage
    \/ ReadHeader
    \/ WriteImage
    \/ WriteHeaderCards
    \/ WriteFitsFile
    \/ Resume

Spec == Init /\ [][Next]_vars

(***************************************************************************)
(* Properties.  Each is read off the record of the call that ran last.     *)
(***************************************************************************)
WriteOps == {"write_image", "write_fits_file"}

HeaderOps == {"write_header_cards", "write_fits_file"}

\* The library calls that work on an open handle.
HandleCalls ==
    {"fits_close_file", "fits_create_img", "fits_write_pix", "fits_get_img_param",
     "fits_read_pix", "fits_update_key", "fits_movabs_hdu", "fits_get_hdrpos",
     "fits_read_record"}

\* The positions of the log at which fn was called.
Issued(fn) == {i \in DOMAIN last.calls : last.calls[i].fn = fn}

Succeeded(fn) == \E i \in Issued(fn) : last.calls[i].st = 0

Failed(fn) == \E i \in Issued(fn) : last.calls[i].st # 0

\* No call failed by the environment's doing.
Undisturbed == \A i \in DOMAIN last.calls : ~last.calls[i].inj

\* width * height * 4 differs from the byte length of the buffer, over the
\* integers.
Mismatch(a) == ~MathEquals(MathByteCount(a.width, a.height), BinSize(a.data))

\* C1: a write whose width * height * 4 is not the buffer's byte length
\* returns {error, dimensions_mismatch} and issues no file-system or library
\* call at all.
C1_MismatchRejectedUntouched ==
    (last.op \in WriteOps /\ Mismatch(last.args))
        => (last.res = ErrorAtomTerm("dimensions_mismatch") /\ last.calls = << >>)

\* A mismatching write ran and was turned down before any call.
C1_Witness ==
    /\ last.op \in WriteOps /\ Mismatch(last.args)
    /\ last.res = ErrorAtomTerm("dimensions_mismatch") /\ last.calls = << >>
    /\ fs.exists

\* C2: when create-new succeeded and the allocation of the image or the
\* write of the samples came back with a non-zero status, the call returns
\* {error, that status} and no file is left under the name.
C2_NoFileAfterFailedWrite ==
    (/\ last.op \in WriteOps
     /\ Succeeded("fits_create_file")
     /\ (Failed("fits_create_img") \/ Failed("fits_write_pix")))
        => (/\ \E i \in Issued("fits_create_img") \cup Issued("fits_write_pix") :
                    last.calls[i].st # 0 /\ last.res = ErrorStatusTerm(last.calls[i].st)
            /\ ~fs.exists)

\* A write failed after create-new and returned the failing step's status.
C2_Witness ==
    /\ last.op \in WriteOps
    /\ Succeeded("fits_create_file")
    /\ \E i \in Issued("fits_write_pix") :
            last.calls[i].st # 0 /\ last.res = ErrorStatusTerm(last.calls[i].st)

\* A value the header loop hands to update-key: an integer, a float, or a
\* character list that fits the value buffer with its terminator.
Encodable(value) ==
    \/ value.t \in {"int", "float"}
    \/ value.t = "list" /\ Len(value.s) < FLEN_VALUE

\* A value that fits the value field: a number, or a text short enough.
FitsField(value) ==
    \/ value.t \in {"int", "float"}
    \/ value.t \in {"list", "bin"} /\ Len(value.s) < FLEN_VALUE - 2

\* The value field the library stores for a value.
FieldOf(value) ==
    CASE value.t = "int" -> ValueField("TLONG", value.n)
      [] value.t = "float" -> ValueField("TDOUBLE", value.n.lo)
      [] value.t \in {"list", "bin"} -> ValueField("TSTRING", value.s)

\* The header stage of the last call was reached: the file was opened and
\* positioned, or created and its samples written.
HeaderStageReached ==
    \/ last.op = "write_header_cards" /\ Succeeded("fits_movabs_hdu")
    \/ last.op = "write_fits_file" /\ last.args.argc = 6 /\ Succeeded("fits_write_pix")

\* The non-structural entries of the mapping of the last call: the keys that
\* are atoms and not on the skip list.
Entries == {k \in DOMAIN last.args.header \ skip_keys : enif_get_atom(k)}

\* The update of the key came back with a non-zero status.
UpdateFailed(k) ==
    \E i \in Issued("fits_update_key") : last.calls[i].key = k /\ last.calls[i].st # 0

\* The entry of the key is stored in the header as the mapping gives it.
Applied(k) ==
    \E c \in DOMAIN fs.cards : fs.cards[c] = Card(k, FieldOf(last.args.header[k]))

\* C3: in the header stage the result is ok when close succeeded and the
\* status of a key is never the result; and when the call returns ok, every
\* non-structural entry whose value fits the field and whose update did not
\* fail has been applied, whichever other entries failed.
C3_PartialFailureIsolation ==
    HeaderStageReached =>
        /\ \A k \in Entries :
                (last.res = OkAtom /\ FitsField(last.args.header[k]) /\ ~UpdateFailed(k))
                    => Applied(k)
        /\ Succeeded("fits_close_file") => last.res = OkAtom
        /\ \A i \in Issued("fits_update_key") :
                last.calls[i].st # 0 => last.res # ErrorStatusTerm(last.calls[i].st)

\* An update failed, a later one was stored, and the call returned ok.
C3_Witness ==
    /\ HeaderStageReached
    /\ last.res = OkAtom
    /\ \E i, j \in Issued("fits_update_key") :
            /\ i < j /\ last.calls[i].st # 0 /\ last.calls[j].st = 0
            /\ Applied(last.calls[j].key)

\* C3, for the entries the loop hands to update-key: each of them gets
\* exactly one update whatever happened to the entries before it, and is
\* stored unless that update failed.
C3_IsolationAmongEncoded ==
    HeaderStageReached =>
        /\ \A k \in Entries :
                Encodable(last.args.header[k]) =>
                    /\ Cardinality({i \in Issued("fits_update_key") : last.calls[i].key = k}) = 1
                    /\ ~UpdateFailed(k) => Applied(k)
        /\ Succeeded("fits_close_file") => last.res = OkAtom
        /\ \A i \in Issued("fits_update_key") :
                last.calls[i].st # 0 => last.res # ErrorStatusTerm(last.calls[i].st)

\* C4: no update-key call is ever issued for a structural key, a mapping of
\* structural keys alone changes nothing and returns ok, and the stored
\* NAXIS1 is the width declared by the last image write that returned ok.
C4_StructuralKeysProtected ==
    /\ \A i \in Issued("fits_update_key") : last.calls[i].key \notin skip_keys
    /\ (HeaderStageReached /\ Entries = {} /\ Succeeded("fits_close_file"))
            => (last.res = OkAtom /\ Issued("fits_update_key") = {})
    /\ declared # NoWidth => fs.naxes[1] = declared

\* A header write that was given NAXIS1 = 9 returned ok on an image whose
\* width had been declared.
C4_Witness ==
    /\ last.op = "write_header_cards"
    /\ "NAXIS1" \in DOMAIN last.args.header
    /\ Entries # {}
    /\ last.res = OkAtom
    /\ declared # NoWidth /\ fs.naxes[1] = declared

\* The call returned to its caller.
Returned == last.op # "none" /\ last.res.tag # "crash"

\* C5: in every call that returns, a handle that was opened or created is
\* closed exactly once and no library call follows the close; without a
\* handle nothing is closed.
C5_HandleClosedOnce ==
    Returned =>
        IF Succeeded("fits_open_file") \/ Succeeded("fits_create_file")
        THEN /\ Cardinality(Issued("fits_close_file")) = 1
             /\ \A i \in Issued("fits_close_file") :
                    \A j \in DOMAIN last.calls :
                        j > i => last.calls[j].fn \notin HandleCalls
        ELSE Issued("fits_close_file") = {}

\* A write failed between create-new and the end, and closed its handle.
C5_Witness ==
    /\ last.op = "write_image"
    /\ Succeeded("fits_create_file")
    /\ Failed("fits_create_img")
    /\ Cardinality(Issued("fits_close_file")) = 1

ClosingOps ==
    {"read_image", "read_header", "write_image", "write_header_cards", "write_fits_file"}

\* Close came back non-zero after calls that all came back zero.
OnlyCloseFailed(i) ==
    /\ i \in Issued("fits_close_file")
    /\ last.calls[i].st # 0
    /\ \A j \in 1..(i - 1) : last.calls[j].st = 0

\* C6: when every step before close succeeded and close returns a non-zero
\* status, the call returns {error, that status}.
C6_CloseFailureSurfaces ==
    \A i \in DOMAIN last.calls :
        (last.op \in ClosingOps /\ OnlyCloseFailed(i))
            => last.res = ErrorStatusTerm(last.calls[i].st)

\* A header write stored a card and then failed to close.
C6_Witness ==
    /\ last.op \in HeaderOps
    /\ Succeeded("fits_update_key")
    /\ \E i \in DOMAIN last.calls :
            OnlyCloseFailed(i) /\ last.res = ErrorStatusTerm(last.calls[i].st)

\* The buffer holds width * height samples of an image with positive sides.
WholeImage(a) ==
    /\ IsSmall(a.width) /\ IsSmall(a.height)
    /\ a.width.lo >= 1 /\ a.height.lo >= 1
    /\ Len(a.data) = a.width.lo * a.height.lo

\* C7: write_image/4 of a whole image, left alone by the environment and
\* followed by read_image, gives back the width, the height and the buffer,
\* whatever was stored under the path before.
C7_PixelRoundTrip ==
    (last.op = "write_image" /\ last.args.argc = 4 /\ WholeImage(last.args) /\ Undisturbed)
        => read_image(fs, NoEnv).res
                = OkImage(last.args.width, last.args.height, last.args.data)

\* The term read back has the type and the value of the term written.
SameTyped(back, value) ==
    CASE value.t = "int" -> back = IntTerm(value.n)
      [] value.t = "float" -> back = FloatTerm(value.n.lo)
      [] value.t \in {"list", "bin"} -> back.t \in {"list", "bin"} /\ back.s = value.s

\* C8: write_header_cards of a mapping of non-structural keys to values
\* that fit, followed by read_header, yields every key of the mapping with
\* the value and the type it was written with.
C8_HeaderRoundTrip ==
    (/\ last.op = "write_header_cards" /\ last.res = OkAtom /\ Undisturbed
     /\ Entries = DOMAIN last.args.header
     /\ \A k \in Entries : FitsField(last.args.header[k]))
        => LET back == read_header(fs, NoEnv).res
           IN  /\ back.tag = "ok_header"
               /\ \A k \in Entries :
                    k \in DOMAIN back.map /\ SameTyped(back.map[k], last.args.header[k])

\* An optional sign followed by digits, at least one, and nothing else.
IsInteger(value) ==
    LET c == IF Len(value) >= 1 /\ value[1] \in {"+", "-"} THEN 2 ELSE 1
    IN  Len(value) >= c /\ \A i \in c..Len(value) : IsDigit(value[i])

IsQuoted(value) == Len(value) >= 1 /\ value[1] = "'"

\* The type the precedence (a)..(d) gives a value field.
Classify(value) ==
    IF IsQuoted(value) THEN "list"
    ELSE IF HasChar(value, ".") THEN "float"
    ELSE IF IsInteger(value) THEN "int"
    ELSE "list"

\* The text of a field classified as text: the field without its quotes when
\* it has both, the field itself otherwise.
TextOf(value) ==
    IF IsQuoted(value) /\ Len(value) >= 2 /\ value[Len(value)] = "'"
    THEN SubSeq(value, 2, Len(value) - 1)
    ELSE value

\* The value field of the last record of the header that has the key.
LastField(recs, key) ==
    recs[CHOOSE i \in DOMAIN recs :
            recs[i].key = key /\ \A j \in (i + 1)..Len(recs) : recs[j].key # key].value

\* C9: every value read_header returns has the type the precedence quoted
\* text, decimal point, whole-field integer, raw text gives its field, and a
\* text value is the field without its pair of quotes.
C9_DecodePrecedence ==
    (last.op = "read_header" /\ last.res.tag = "ok_header" /\ Undisturbed) =>
        \A k \in DOMAIN last.res.map :
            LET field == LastField(Records(fs), k)
            IN  /\ last.res.map[k].t = Classify(field)
                /\ Classify(field) = "list" => last.res.map[k].s = TextOf(field)

\* C10: read_image of a stored image whose axis count is not 2, with open
\* and the parameter query succeeding, returns an error that is not the
\* library's success status and issues no read of the samples.
C10_NonTwoDimensionalRejected ==
    (/\ last.op = "read_image"
     /\ Succeeded("fits_open_file") /\ Succeeded("fits_get_img_param")
     /\ fs.naxis # 2)
        => /\ last.res.tag = "error"
           /\ last.res # ErrorStatusTerm(0)
           /\ Issued("fits_read_pix") = {}

\* A stage of read_image came back with a failure: open, the parameter
\* query, the allocation of the buffer, the read of the samples.
ReadStageFailed ==
    \E i \in DOMAIN last.calls :
        /\ last.calls[i].fn \in {"fits_open_file", "fits_get_img_param", "malloc",
                                 "fits_read_pix", "enif_alloc_binary"}
        /\ last.calls[i].st # 0

\* C11: when a stage of read_image fails, read_image returns an error and
\* never {ok, {width, height, buffer}}.
C11_ReadImageAllOrNothing ==
    (last.op = "read_image" /\ ReadStageFailed)
        => last.res.tag \in {"error", "error_atom"}

\* C11, the part that holds: after a failed stage no image is returned, and
\* a returned buffer is the stored data unit, whole.
C11_NoImageAfterFailure ==
    last.op = "read_image" =>
        /\ ReadStageFailed => last.res.tag # "ok_image"
        /\ last.res.tag = "ok_image" => (DataComplete(fs) /\ last.res.data = fs.pix)

\* The read of the samples failed and its status was returned.
C11_Witness ==
    /\ last.op = "read_image"
    /\ \E i \in Issued("fits_read_pix") :
            last.calls[i].st # 0 /\ last.res = ErrorStatusTerm(last.calls[i].st)

RecordCalls == {"fits_read_record", "fits_get_keyname", "fits_parse_value"}

\* The call on a record that failed first.
FirstRecordFailure(i) ==
    /\ i \in DOMAIN last.calls
    /\ last.calls[i].fn \in RecordCalls /\ last.calls[i].st # 0
    /\ \A j \in 1..(i - 1) : last.calls[j].st = 0

\* C12: when reading a record, extracting its keyword or parsing its value
\* fails, for any record up to the last, read_header returns {error, code}
\* with the status of that failure, and no mapping.
C12_ReadHeaderAllOrNothing ==
    \A i \in DOMAIN last.calls :
        (last.op = "read_header" /\ FirstRecordFailure(i))
            => last.res = ErrorStatusTerm(last.calls[i].st)

\* The value of the last record of the header could not be parsed, and the
\* call returned the status.
C12_Witness ==
    /\ last.op = "read_header"
    /\ Cardinality(Issued("fits_read_record")) = Len(Records(fs))
    /\ \E i \in Issued("fits_parse_value") :
            /\ FirstRecordFailure(i)
            /\ last.calls[i + 1].fn = "fits_close_file"
            /\ last.res = ErrorStatusTerm(last.calls[i].st)

\* The keywords of the records that carry a value.
ValueKeys(recs) ==
    {recs[i].key : i \in DOMAIN recs} \ {"COMMENT", "HISTORY", ""}

\* C13: for each keyword of a value-carrying record the mapping read_header
\* returns holds the decoded value of the last record with that keyword.
C13_LastDuplicateWins ==
    (last.op = "read_header" /\ last.res.tag = "ok_header") =>
        \A k \in ValueKeys(Records(fs)) :
            /\ k \in DOMAIN last.res.map
            /\ last.res.map[k] = decode_value(LastField(Records(fs), k), 0)

\* A header with two records of one keyword was read.
C13_Witness ==
    /\ last.op = "read_header" /\ last.res.tag = "ok_header"
    /\ \E i, j \in DOMAIN fs.cards :
            /\ i < j /\ fs.cards[i].key = fs.cards[j].key
            /\ fs.cards[i].value # fs.cards[j].value
            /\ fs.cards[j].key \in DOMAIN last.res.map
            /\ last.res.map[fs.cards[j].key] = decode_value(fs.cards[j].value, 0)

\* C14: the mapping read_header returns has an entry for every keyword of
\* the header but COMMENT, HISTORY and the blank keyword, and for no other.
C14_CommentaryExcluded ==
    (last.op = "read_header" /\ last.res.tag = "ok_header") =>
        DOMAIN last.res.map = ValueKeys(Records(fs))

\* A header with COMMENT, HISTORY and blank records was read.
C14_Witness ==
    /\ last.op = "read_header" /\ last.res.tag = "ok_header"
    /\ {"COMMENT", "HISTORY", ""} \subseteq {fs.cards[i].key : i \in DOMAIN fs.cards}
    /\ "NOVAL" \in DOMAIN last.res.map
    /\ "HISTORY" \notin DOMAIN last.res.map

\* width <= 0 or height <= 0
NotPositive(x) == x.hi < 0 \/ (x.hi = 0 /\ x.lo <= 0)

\* C15: a write with width <= 0 or height <= 0, on a path that is accepted,
\* fails with an error before create-new or allocate-image is called,
\* whatever the length of the buffer.
C15_NonPositiveDimensionsRejected ==
    (last.op \in WriteOps /\ ~PathRejected(last.args.path)
     /\ (NotPositive(last.args.width) \/ NotPositive(last.args.height)))
        => /\ last.res.tag = "error"
           /\ Issued("fits_create_file") = {}
           /\ Issued("fits_create_img") = {}

\* A write with a negative width and a buffer of another size was turned
\* down before any call.
C15_Witness ==
    /\ last.op \in WriteOps
    /\ NotPositive(last.args.width) /\ ~NotPositive(last.args.height)
    /\ last.res.tag = "error" /\ last.calls = << >>

C17_RemoveBeforeCreate ==
    (last.op \in WriteOps /\ Issued("fits_create_file") # {}) =>
        \E i \in Issued("remove") : \A j \in Issued("fits_create_file") : i < j

\* write_fits_file removed, created and wrote.
C17_Witness ==
    /\ last.op = "write_fits_file" /\ last.res = OkAtom
    /\ \E i \in Issued("remove") : \A j \in Issued("fits_create_file") : i < j

\* C18: a write given a format code the library does not know returns an
\* error; a write given none allocates the image as 32-bit float; samples
\* go to and come from the library as 32-bit floats.
C18_FormatCode ==
    /\ (/\ last.op \in WriteOps /\ ~PathRejected(last.args.path)
        /\ last.args.argc >= 5 /\ last.args.bitpix \notin ValidBitpix)
            => last.res.tag = "error"
    /\ (last.op \in WriteOps /\ last.args.argc = 4 /\ Succeeded("fits_create_img"))
            => fs.bitpix = FLOAT_IMG
    /\ \A i \in Issued("fits_write_pix") \cup Issued("fits_read_pix") :
            last.calls[i].tag = "TFLOAT"

\* A write with the format code 7 was refused by allocate-image.
C18_Witness ==
    /\ last.op \in WriteOps
    /\ last.args.argc = 5 /\ last.args.bitpix \notin ValidBitpix
    /\ \E i \in Issued("fits_create_img") :
            last.calls[i].st # 0 /\ last.res = ErrorStatusTerm(last.calls[i].st)

\* C19: write_header_cards on a path where fopen finds no file returns
\* {error, file_not_found} without open-existing, create-new or update-key,
\* and leaves no file under the path.
C19_FileNotFound ==
    (last.op = "write_header_cards" /\ Failed("fopen")) =>
        /\ last.res = ErrorAtomTerm("file_not_found")
        /\ Issued("fits_open_file") = {}
        /\ Issued("fits_create_file") = {}
        /\ Issued("fits_update_key") = {}
        /\ ~fs.exists

\* Cards were to be written where no file is, and file_not_found came back.
C19_Witness ==
    /\ last.op = "write_header_cards" /\ Failed("fopen")
    /\ DOMAIN last.args.header # {}
    /\ last.res = ErrorAtomTerm("file_not_found")
    /\ ~fs.exists

\* The place of a library call in the order create-new, allocate-image,
\* write-samples, update-key, close; 0 for a call that is none of them.
StageOf(fn) ==
    CASE fn = "fits_create_file" -> 1
      [] fn = "fits_create_img" -> 2
      [] fn = "fits_write_pix" -> 3
      [] fn = "fits_update_key" -> 4
      [] fn = "fits_close_file" -> 5
      [] OTHER -> 0

\* The positions of the log that hold a call of one of the five stages.
StageCalls == {i \in DOMAIN last.calls : StageOf(last.calls[i].fn) > 0}

\* C20: in write_fits_file the library calls come in the order create-new,
\* allocate-image, write-samples, update-key (any number), close: no stage
\* but update-key is repeated, none is revisited, each stage but close
\* follows the success of the one before it, and nothing follows close.
C20_WriteOrdering ==
    last.op = "write_fits_file" =>
        /\ \A i, j \in StageCalls :
                i < j =>
                    \/ StageOf(last.calls[i].fn) < StageOf(last.calls[j].fn)
                    \/ StageOf(last.calls[i].fn) = 4 /\ StageOf(last.calls[j].fn) = 4
        /\ \A j \in StageCalls :
                StageOf(last.calls[j].fn) \in 2..4 =>
                    \E i \in StageCalls :
                        /\ i < j /\ last.calls[i].st = 0
                        /\ StageOf(last.calls[i].fn)
                                = (IF StageOf(last.calls[j].fn) = 4 THEN 3
                                   ELSE StageOf(last.calls[j].fn) - 1)
        /\ \A i \in Issued("fits_close_file") :
                Succeeded("fits_create_file") /\ i = Len(last.calls)
        /\ last.res = OkAtom =>
                {StageOf(last.calls[i].fn) : i \in StageCalls} \ {4} = {1, 2, 3, 5}

\* All five stages ran, update-key twice.
C20_Witness ==
    /\ last.op = "write_fits_file" /\ last.res = OkAtom
    /\ Cardinality(Issued("fits_update_key")) >= 2
    /\ \A i \in Issued("fits_update_key") :
            /\ \E j \in Issued("fits_write_pix") : j < i
            /\ \E j \in Issued("fits_close_file") : i < j

\* The type tag the dispatch is to give a value.
TagOf(value) ==
    CASE value.t = "int" -> "TLONG"
      [] value.t = "float" -> "TDOUBLE"
      [] value.t \in {"list", "bin"} -> "TSTRING"

\* The update-key calls of the last call for the key.
UpdatesOf(k) == {i \in Issued("fits_update_key") : last.calls[i].key = k}

\* C21: in the header stage every non-structural entry whose value fits the
\* field gets exactly one update-key call, tagged signed long for an
\* integer, double for a float and string for a text, be the text a binary
\* or a character list.
C21_TypeDispatch ==
    HeaderStageReached =>
        \A k \in Entries :
            FitsField(last.args.header[k]) =>
                /\ Cardinality(UpdatesOf(k)) = 1
                /\ \A i \in UpdatesOf(k) : last.calls[i].tag = TagOf(last.args.header[k])

\* C21, the part that holds: integers, floats and character lists that fit
\* the value buffer get exactly one update-key call with the tag of their
\* type, and nothing else gets one.
C21_DispatchOfNumbersAndLists ==
    HeaderStageReached =>
        /\ \A k \in Entries :
                Encodable(last.args.header[k]) =>
                    /\ Cardinality(UpdatesOf(k)) = 1
                    /\ \A i \in UpdatesOf(k) : last.calls[i].tag = TagOf(last.args.header[k])
        /\ \A i \in Issued("fits_update_key") :
                /\ last.calls[i].key \in Entries
                /\ Encodable(last.args.header[last.calls[i].key])

\* An integer and a character list were dispatched in one call.
C21_Witness ==
    /\ HeaderStageReached
    /\ \E i, j \in Issued("fits_update_key") :
            last.calls[i].tag = "TLONG" /\ last.calls[j].tag = "TSTRING"

\* The call got past the dimension check: it went on to the file.
PassedDimensionCheck == last.op \in WriteOps /\ last.calls # << >>

\* C22: a write gets past the dimension check only when width * height * 4,
\* taken over the integers, is the byte length of the buffer; a pair whose
\* product wraps is not accepted against a buffer of another size.
C22_DimensionCheckExact ==
    PassedDimensionCheck => ~Mismatch(last.args)

\* C22, the part that holds: the check is exact whenever width * height
\* does not overflow the signed long and is not negative.
C22_ExactWithoutWrap ==
    (/\ last.op \in WriteOps /\ ~PathRejected(last.args.path)
     /\ NoSignedOverflow(last.args.width, last.args.height)
     /\ LongMul(last.args.width, last.args.height).hi = 0
     /\ LongMul(last.args.width, last.args.height).lo >= 0)
        => (PassedDimensionCheck <=> ~Mismatch(last.args))

\* A write of matching dimensions got past the check and one of mismatching
\* dimensions had been turned down before: here the former.
C22_Witness ==
    /\ PassedDimensionCheck /\ ~Mismatch(last.args)
    /\ BinSize(last.args.data) > 0

\* C24: read_header yields an integer only for a record whose value field
\* is an optional sign followed by decimal digits, at least one; an empty
\* field or one without a digit is never decoded to an integer.
C24_IntegerOnlyFromDigits ==
    (last.op = "read_header" /\ last.res.tag = "ok_header") =>
        \A k \in DOMAIN last.res.map :
            last.res.map[k].t = "int" => IsInteger(LastField(Records(fs), k))

\* C24, the part that holds: a field that is not empty is decoded to an
\* integer only when it is an optionally signed run of digits.
C24_IntegerFromNonEmpty ==
    (last.op = "read_header" /\ last.res.tag = "ok_header") =>
        \A k \in DOMAIN last.res.map :
            (last.res.map[k].t = "int" /\ LastField(Records(fs), k) # << >>)
                => IsInteger(LastField(Records(fs), k))

\* A header with a signed integer field, a field of a digit and a letter and
\* a keyword without a value was read.
C24_Witness ==
    /\ last.op = "read_header" /\ last.res.tag = "ok_header"
    /\ {"NEG", "MIXED", "NOVAL"} \subseteq DOMAIN last.res.map
    /\ last.res.map["NEG"].t = "int"
    /\ last.res.map["MIXED"].t = "list"

\* The calls that replace a file or its image.
ImageCalls == {"remove", "fits_create_file", "fits_create_img", "fits_write_pix"}

\* write_header_cards issued none of the calls that replace the image.
NoImageCall ==
    last.op = "write_header_cards" =>
        \A i \in DOMAIN last.calls : last.calls[i].fn \notin ImageCalls

\* A step of write_header_cards leaves what read_image returns as it was.
ImageKept ==
    last'.op = "write_header_cards" =>
        read_image(fs', NoEnv).res = read_image(fs, NoEnv).res

\* C25: write_header_cards issues no remove, create-new, allocate-image or
\* write-samples call, and read_image returns the same width, height and
\* buffer after a write_header_cards call as before it, hence after any
\* sequence of them.
C25_ImageUnchanged == [][ImageKept /\ NoImageCall']_vars

\* C25, the part that holds: write_header_cards issues none of the calls
\* that replace the image, it leaves the stored dimensions and samples as
\* they are, and read_image returns what it did before whenever the mapping
\* does not set the scaling of the samples.
C25_StoredImageKept ==
    [][/\ NoImageCall'
       /\ last'.op = "write_header_cards" =>
            /\ fs'.naxis = fs.naxis /\ fs'.naxes = fs.naxes
            /\ fs'.pix = fs.pix /\ fs'.bitpix = fs.bitpix
            /\ "BSCALE" \notin DOMAIN last'.args.header => ImageKept]_vars

\* write_header_cards stored BSCALE in a file whose image read_image
\* returns.
C25_Witness ==
    /\ last.op = "write_header_cards" /\ last.res = OkAtom
    /\ "BSCALE" \in Entries /\ Applied("BSCALE")
    /\ read_image(fs, NoEnv).res.tag = "ok_image"
    /\ read_image(fs, NoEnv).res.data # << >>
    /\ read_image(fs, NoEnv).res.data # fs.pix

\* The positions of the log at which the loop took the pair of the iterator.
Visits == Issued("enif_map_iterator_get_pair")

\* The visits of the loop that found the entry of the key.
VisitsOf(k) == {i \in Visits : last.calls[i].key = k /\ last.calls[i].tag = "pair"}

\* C23: the header loop ends for every mapping, the empty one included, and
\* visits each entry exactly once, also when entries are skipped by continue
\* (no pair, key no short atom, structural key): the one visit of the empty
\* mapping finds no pair, every other visit finds the pair of an entry, each
\* entry is found once, and close follows the last visit.
C23_EachEntryVisitedOnce ==
    HeaderStageReached =>
        /\ \A k \in DOMAIN last.args.header : Cardinality(VisitsOf(k)) = 1
        /\ IF DOMAIN last.args.header = {}
           THEN /\ Cardinality(Visits) = 1
                /\ \A i \in Visits : last.calls[i].tag = "tail"
           ELSE /\ Cardinality(Visits) = Cardinality(DOMAIN last.args.header)
                /\ \A i \in Visits : last.calls[i].tag = "pair"
        /\ Cardinality(Issued("fits_close_file")) = 1
        /\ \A i \in Visits : \A c \in Issued("fits_close_file") : i < c

\* The loop skipped a structural key and went on to update the entry after
\* it.
C23_Witness ==
    /\ HeaderStageReached
    /\ \E i \in VisitsOf("NAXIS1") : \E j \in VisitsOf("OBJECT") :
            /\ i + 1 = j
            /\ j + 1 \in UpdatesOf("OBJECT")

\* C23, the other continue paths: a key that is no atom is visited and
\* passed over without an update, and the empty mapping returns ok when
\* close succeeds.
C23_ContinuePaths ==
    HeaderStageReached =>
        /\ \A k \in DOMAIN last.args.header :
                (~enif_get_atom(k) \/ IsSkipped(k)) => UpdatesOf(k) = {}
        /\ (DOMAIN last.args.header = {} /\ Succeeded("fits_close_file"))
                => last.res = OkAtom

====
